---- MODULE Spec2Model ----
(***************************************************************************)
(* Token ledger (off-chain Token entity, on-chain Token contract) and the  *)
(* event-based state reconstruction of StateQueryService.                  *)
(***************************************************************************)
EXTENDS Integers, Sequences, FiniteSets, TLC

VARIABLES
    token,      \* the off-chain Token entity: [accounts, totalSupply]
    thrown,     \* outcome of the last call made on the Token entity
    call,       \* the last call made: [op, from, to, amount]
    before,     \* the Token entity as it was when the last call started
    valid,      \* TRUE while no call made on the Token entity has thrown
    contract,   \* the on-chain Token contract: [balances, totalSupply]
    reverted,   \* outcome of the last call made on the contract
    sent,       \* the last transaction sent to the contract: [op, sender, to, amount]
    prior,      \* the contract's storage as it was when the last transaction started
    emitted,    \* every event the contract emitted, in emission order
    logs,       \* the raw records provider.getLogs delivered, in delivery order
    returned,   \* what reconstructStateFromEvents returned
    replay,     \* what the last reconstruction did with each record, in order
    pc,         \* "idle", or "returned" once reconstructStateFromEvents returned
    compared,   \* the compareState call in progress or last made
    loaded,     \* the ContractRepository call in progress or last made
    wallet,     \* the WalletService call in progress or last made
    run,        \* reconstructStateFromEvents statement by statement: its locals
    earlier     \* the reconstructStateFromEvents call made before the last one

\* The variables of the application services.
serviceVars == <<compared, loaded, wallet, run, earlier>>

vars == <<token, thrown, call, before, valid, contract, reverted, sent, prior, emitted, logs,
          returned, replay, pc, serviceVars>>

(***************************************************************************)
(* Bounds                                                                  *)
(***************************************************************************)
MaxAmount == 2
MaxSupply == 3
MaxBalance == 4

(***************************************************************************)
(* Address value object                                                    *)
(***************************************************************************)
\* Address.zero(): the string "0x00..00", written "0x0" here.
ZeroAddress == "0x0"

\* The strings the Address constructor accepts. "0xA" and "0xa" are two
\* spellings (upper and lower case hex digits) of the same account.
AddressValues == {"0x0", "0xa", "0xA", "0xb"}

\* String.prototype.toLowerCase on the address strings of the model.
toLowerCase(s) == IF s = "0xA" THEN "0xa" ELSE s

\* Address.equals: case-insensitive comparison of the two values.
equals(a, b) == toLowerCase(a) = toLowerCase(b)

\* Address.isZero
isZero(a) == equals(a, ZeroAddress)

\* new Address(value): true when the constructor accepts the string.
isValidEthereumAddress(s) == s \in AddressValues

(***************************************************************************)
(* Balance value object (bigint, never negative)                           *)
(***************************************************************************)
\* new Balance(value) throws for a negative value.
BalanceOk(v) == ~(v < 0)

isGreaterThanOrEqual(a, b) == a >= b

\* Balance.subtract throws "Insufficient balance" when this.value < other.value.
SubtractThrows(a, b) == a < b

(***************************************************************************)
(* Token entity                                                            *)
(***************************************************************************)
NoError == "none"

\* Token.create: totalSupply zero, no accounts (an absent account reads zero).
TokenCreate == [accounts |-> [a \in AddressValues |-> 0], totalSupply |-> 0]

\* Token.getBalance: accounts.get(address.getValue()) || Balance.zero()
getBalance(t, address) == t.accounts[address]

getTotalSupply(t) == t.totalSupply

\* this.accounts.set(key, balance)
SetAccount(t, key, balance) == [t EXCEPT !.accounts[key] = balance]

RECURSIVE SumOver(_, _)
SumOver(f, S) ==
    IF S = {} THEN 0
    ELSE LET x == CHOOSE y \in S : TRUE IN f[x] + SumOver(f, S \ {x})

\* Token.verifyInvariant: the sum over accounts.values() equals totalSupply.
verifyInvariant(t) == SumOver(t.accounts, DOMAIN t.accounts) = t.totalSupply

Outcome(t, e) == [token |-> t, error |-> e]

\* The value at which the sums of the mutant below wrap: the model's
\* stand-in for the width of a machine word.
Wrap == MaxSupply

\* Mutant: Token.mint with sums of fixed width, which wrap.
TokenMintWrapping(t, to, amount) ==
    IF isZero(to) THEN Outcome(t, "Cannot mint to zero address")
    ELSE IF amount = 0 THEN Outcome(t, "Mint amount must be greater than zero")
    ELSE LET t1 == SetAccount(t, to, (getBalance(t, to) + amount) % Wrap)
         IN  Outcome([t1 EXCEPT !.totalSupply = (t.totalSupply + amount) % Wrap], NoError)

\* Token.mint as it would be without the amount check.
TokenMintAnyAmount(t, to, amount) ==
    IF isZero(to) THEN Outcome(t, "Cannot mint to zero address")
    ELSE Outcome([SetAccount(t, to, getBalance(t, to) + amount)
                     EXCEPT !.totalSupply = t.totalSupply + amount], NoError)

\* Token.mint as it would be without the totalSupply update.
TokenMintNoSupply(t, to, amount) ==
    IF isZero(to) THEN Outcome(t, "Cannot mint to zero address")
    ELSE IF amount = 0 THEN Outcome(t, "Mint amount must be greater than zero")
    ELSE Outcome(SetAccount(t, to, getBalance(t, to) + amount), NoError)

\* Token.mint
TokenMint(t, to, amount) ==
    IF isZero(to) THEN Outcome(t, "Cannot mint to zero address")
    ELSE IF amount = 0 THEN Outcome(t, "Mint amount must be greater than zero")
    ELSE LET currentBalance == getBalance(t, to)
             t1 == SetAccount(t, to, currentBalance + amount)
         IN  Outcome([t1 EXCEPT !.totalSupply = t.totalSupply + amount], NoError)

\* Token.transfer as it would be with the amount check made first.
TokenTransferAmountFirst(t, from, to, amount) ==
    IF amount = 0 THEN Outcome(t, "Transfer amount must be greater than zero")
    ELSE IF isZero(to) THEN Outcome(t, "Cannot transfer to zero address")
    ELSE LET fromBalance == getBalance(t, from) IN
         IF ~isGreaterThanOrEqual(fromBalance, amount)
         THEN Outcome(t, "Insufficient balance for transfer")
         ELSE LET toBalance == getBalance(t, to)
                  t1 == SetAccount(t, from, fromBalance - amount)
                  t2 == SetAccount(t1, to, toBalance + amount)
              IN  Outcome(t2, NoError)

\* Token.transfer as it would be without the amount check.
TokenTransferAnyAmount(t, from, to, amount) ==
    IF isZero(to) THEN Outcome(t, "Cannot transfer to zero address")
    ELSE LET fromBalance == getBalance(t, from) IN
         IF ~isGreaterThanOrEqual(fromBalance, amount)
         THEN Outcome(t, "Insufficient balance for transfer")
         ELSE LET toBalance == getBalance(t, to)
                  t1 == SetAccount(t, from, fromBalance - amount)
                  t2 == SetAccount(t1, to, toBalance + amount)
              IN  Outcome(t2, NoError)

\* Token.transfer: both balances are read before either is written.
TokenTransfer(t, from, to, amount) ==
    IF isZero(to) THEN Outcome(t, "Cannot transfer to zero address")
    ELSE IF amount = 0 THEN Outcome(t, "Transfer amount must be greater than zero")
    ELSE LET fromBalance == getBalance(t, from) IN
         IF ~isGreaterThanOrEqual(fromBalance, amount)
         THEN Outcome(t, "Insufficient balance for transfer")
         ELSE LET toBalance == getBalance(t, to)
                  t1 == SetAccount(t, from, fromBalance - amount)
                  t2 == SetAccount(t1, to, toBalance + amount)
              IN  Outcome(t2, NoError)

\* Token.burn as it would be without the totalSupply update.
TokenBurnNoSupply(t, from, amount) ==
    IF amount = 0 THEN Outcome(t, "Burn amount must be greater than zero")
    ELSE LET fromBalance == getBalance(t, from) IN
         IF ~isGreaterThanOrEqual(fromBalance, amount)
         THEN Outcome(t, "Insufficient balance for burn")
         ELSE Outcome(SetAccount(t, from, fromBalance - amount), NoError)

\* Token.burn: the account is written before totalSupply.subtract runs.
TokenBurn(t, from, amount) ==
    IF amount = 0 THEN Outcome(t, "Burn amount must be greater than zero")
    ELSE LET fromBalance == getBalance(t, from) IN
         IF ~isGreaterThanOrEqual(fromBalance, amount)
         THEN Outcome(t, "Insufficient balance for burn")
         ELSE LET t1 == SetAccount(t, from, fromBalance - amount) IN
              IF SubtractThrows(t.totalSupply, amount)
              THEN Outcome(t1, "Insufficient balance")
              ELSE Outcome([t1 EXCEPT !.totalSupply = t.totalSupply - amount], NoError)


(***************************************************************************)
(* StateTransition: the pre-flight validators. They read the Token and     *)
(* return { valid, reason }; none of them writes to it.                    *)
(***************************************************************************)
Verdict(v, reason) == [valid |-> v, reason |-> reason]

\* StateTransition.validateTransfer
validateTransfer(t, from, to, amount) ==
    IF isZero(to) THEN Verdict(FALSE, "Cannot transfer to zero address")
    ELSE IF amount = 0 THEN Verdict(FALSE, "Transfer amount must be greater than zero")
    ELSE LET fromBalance == getBalance(t, from) IN
         IF ~isGreaterThanOrEqual(fromBalance, amount)
         THEN Verdict(FALSE, "Insufficient balance")
         ELSE Verdict(TRUE, NoError)

\* StateTransition.validateMint
validateMint(t, to, amount) ==
    IF isZero(to) THEN Verdict(FALSE, "Cannot mint to zero address")
    ELSE IF amount = 0 THEN Verdict(FALSE, "Mint amount must be greater than zero")
    ELSE Verdict(TRUE, NoError)

\* StateTransition.validateBurn
validateBurn(t, from, amount) ==
    IF amount = 0 THEN Verdict(FALSE, "Burn amount must be greater than zero")
    ELSE LET fromBalance == getBalance(t, from) IN
         IF ~isGreaterThanOrEqual(fromBalance, amount)
         THEN Verdict(FALSE, "Insufficient balance")
         ELSE Verdict(TRUE, NoError)


(***************************************************************************)
(* StateQueryService.reconstructStateFromEvents                            *)
(***************************************************************************)
\* A field of an ethers.Log that is null (or undefined).
Null == -1

\* tokenInterface.parseLog(log): a LogDescription for the three events of the
\* interface, null for any other log.
parseLog(log) == log.name \in {"Mint", "Transfer", "Burn"}

\* The element pushed on logsByTx.get(txHash): the log with its ordering
\* coordinates, a null coordinate read as 0.
Entry(log) ==
    [log |-> log,
     blockNumber |-> IF log.blockNumber # Null THEN log.blockNumber ELSE 0,
     transactionIndex |-> IF log.transactionIndex # Null THEN log.transactionIndex ELSE 0,
     logIndex |-> IF log.index # Null THEN log.index ELSE 0]

RECURSIVE IndexOfTx(_, _, _)
IndexOfTx(byTx, txHash, i) ==
    IF i > Len(byTx) THEN 0
    ELSE IF byTx[i].txHash = txHash THEN i
    ELSE IndexOfTx(byTx, txHash, i + 1)

\* One iteration of the parse loop: the Map keeps its keys in insertion order.
PushLog(byTx, log) ==
    IF ~parseLog(log) THEN byTx
    ELSE LET i == IndexOfTx(byTx, log.transactionHash, 1) IN
         IF i = 0
         THEN Append(byTx, [txHash |-> log.transactionHash, txLogs |-> <<Entry(log)>>])
         ELSE [byTx EXCEPT ![i].txLogs = Append(@, Entry(log))]

RECURSIVE GroupFrom(_, _, _)
GroupFrom(byTx, ls, i) ==
    IF i > Len(ls) THEN byTx ELSE GroupFrom(PushLog(byTx, ls[i]), ls, i + 1)

\* First pass over the logs: logsByTx.
logsByTx(ls) == GroupFrom(<<>>, ls, 1)

\* The reduce callback of the transaction comparator.
MinStep(min, e) ==
    IF e.blockNumber < min.blockNumber
       \/ (e.blockNumber = min.blockNumber /\ e.transactionIndex < min.transactionIndex)
    THEN [blockNumber |-> e.blockNumber, transactionIndex |-> e.transactionIndex]
    ELSE min

RECURSIVE MinFrom(_, _, _)
MinFrom(min, txLogs, i) ==
    IF i > Len(txLogs) THEN min ELSE MinFrom(MinStep(min, txLogs[i]), txLogs, i + 1)

\* aMin / bMin: the least (blockNumber, transactionIndex) of a transaction's logs.
TxMin(txLogs) ==
    MinFrom([blockNumber |-> txLogs[1].blockNumber,
             transactionIndex |-> txLogs[1].transactionIndex], txLogs, 1)

\* The comparator handed to sort() for the transactions.
CompareTx(a, b) ==
    LET aMin == TxMin(a.txLogs)
        bMin == TxMin(b.txLogs)
    IN  IF aMin.blockNumber # bMin.blockNumber
        THEN aMin.blockNumber - bMin.blockNumber
        ELSE aMin.transactionIndex - bMin.transactionIndex

\* The comparator handed to sort() for the logs of one transaction.
CompareLogs(a, b) ==
    IF a.blockNumber # b.blockNumber THEN a.blockNumber - b.blockNumber
    ELSE IF a.transactionIndex # b.transactionIndex
    THEN a.transactionIndex - b.transactionIndex
    ELSE a.logIndex - b.logIndex

\* Array.prototype.sort is stable: an element goes behind every element that
\* does not compare greater than it.
RECURSIVE InsertTx(_, _, _)
InsertTx(sorted, x, i) ==
    IF i > Len(sorted) THEN Append(sorted, x)
    ELSE IF CompareTx(sorted[i], x) > 0
    THEN SubSeq(sorted, 1, i - 1) \o <<x>> \o SubSeq(sorted, i, Len(sorted))
    ELSE InsertTx(sorted, x, i + 1)

RECURSIVE SortTxFrom(_, _, _)
SortTxFrom(sorted, s, i) ==
    IF i > Len(s) THEN sorted ELSE SortTxFrom(InsertTx(sorted, s[i], 1), s, i + 1)

\* Mutant: the transactions are replayed in the order getLogs delivered them.
deliveryOrderTxEntries(byTx) == byTx

\* sortedTxEntries
sortedTxEntries(byTx) == SortTxFrom(<<>>, byTx, 1)

RECURSIVE InsertLog(_, _, _)
InsertLog(sorted, x, i) ==
    IF i > Len(sorted) THEN Append(sorted, x)
    ELSE IF CompareLogs(sorted[i], x) > 0
    THEN SubSeq(sorted, 1, i - 1) \o <<x>> \o SubSeq(sorted, i, Len(sorted))
    ELSE InsertLog(sorted, x, i + 1)

RECURSIVE SortLogsFrom(_, _, _)
SortLogsFrom(sorted, s, i) ==
    IF i > Len(s) THEN sorted ELSE SortLogsFrom(InsertLog(sorted, s[i], 1), s, i + 1)

\* sortedLogs
sortedLogs(txLogs) == SortLogsFrom(<<>>, txLogs, 1)

\* Address.from(raw) / Balance.from(raw) throw for these raw arguments.
AddressFromThrows(raw) == ~isValidEthereumAddress(raw)
BalanceFromThrows(raw) == ~BalanceOk(raw)

\* Mutant: the flag is set only when every Burn of the transaction has a
\* Transfer to the zero address to pair with.
hasTransferBurnPaired(sLogs) ==
    LET canonical == {i \in 1..Len(sLogs) : /\ sLogs[i].log.name = "Transfer"
                                            /\ ~AddressFromThrows(sLogs[i].log.to)
                                            /\ isZero(sLogs[i].log.to)}
        explicit == {i \in 1..Len(sLogs) : sLogs[i].log.name = "Burn"}
    IN  canonical # {} /\ Cardinality(canonical) >= Cardinality(explicit)

\* Mutant: no first pass, the flag stays false.
hasTransferBurnNever(sLogs) == FALSE

\* First pass over a transaction: hasTransferBurn. A Transfer whose `to` does
\* not parse is passed over; nothing but `to` is looked at.
hasTransferBurn(sLogs) ==
    \E i \in 1..Len(sLogs) :
        /\ sLogs[i].log.name = "Transfer"
        /\ ~AddressFromThrows(sLogs[i].log.to)
        /\ isZero(sLogs[i].log.to)

Handled(t, how) == [token |-> t, how |-> how]

\* What became of a Token call made inside the try block.
Called(out) == Handled(out.token, IF out.error = NoError THEN "applied" ELSE "failed")

\* Mutant: a Burn event is skipped whether or not the flag is set.
ProcessLogNoFallback(t, e, flag) ==
    LET l == e.log IN
    IF l.name = "Mint" THEN
        IF AddressFromThrows(l.to) \/ BalanceFromThrows(l.amount)
        THEN Handled(t, "dropped")
        ELSE Called(TokenMint(t, l.to, l.amount))
    ELSE IF l.name = "Transfer" THEN
        IF AddressFromThrows(l.from) \/ AddressFromThrows(l.to) \/ BalanceFromThrows(l.amount)
        THEN Handled(t, "dropped")
        ELSE IF isZero(l.to)
        THEN Called(TokenBurn(t, l.from, l.amount))
        ELSE Called(TokenTransfer(t, l.from, l.to, l.amount))
    ELSE Handled(t, "skipped")

\* Mutant: every Transfer is handed to Token.transfer, whatever its recipient.
ProcessLogTransferOnly(t, e, flag) ==
    LET l == e.log IN
    IF l.name = "Mint" THEN
        IF AddressFromThrows(l.to) \/ BalanceFromThrows(l.amount)
        THEN Handled(t, "dropped")
        ELSE Called(TokenMint(t, l.to, l.amount))
    ELSE IF l.name = "Transfer" THEN
        IF AddressFromThrows(l.from) \/ AddressFromThrows(l.to) \/ BalanceFromThrows(l.amount)
        THEN Handled(t, "dropped")
        ELSE Called(TokenTransfer(t, l.from, l.to, l.amount))
    ELSE IF l.name = "Burn" THEN
        IF flag THEN Handled(t, "skipped")
        ELSE IF AddressFromThrows(l.from) \/ BalanceFromThrows(l.amount)
        THEN Handled(t, "dropped")
        ELSE Called(TokenBurn(t, l.from, l.amount))
    ELSE Handled(t, "ignored")

\* Body of the second pass for one log: the try block and its catch, which
\* swallows whatever was thrown and keeps the Token as the throw left it.
ProcessLog(t, e, flag) ==
    LET l == e.log IN
    IF l.name = "Mint" THEN
        IF AddressFromThrows(l.to) \/ BalanceFromThrows(l.amount)
        THEN Handled(t, "dropped")
        ELSE Called(TokenMint(t, l.to, l.amount))
    ELSE IF l.name = "Transfer" THEN
        IF AddressFromThrows(l.from) \/ AddressFromThrows(l.to) \/ BalanceFromThrows(l.amount)
        THEN Handled(t, "dropped")
        ELSE IF isZero(l.to)
        THEN Called(TokenBurn(t, l.from, l.amount))
        ELSE Called(TokenTransfer(t, l.from, l.to, l.amount))
    ELSE IF l.name = "Burn" THEN
        IF flag THEN Handled(t, "skipped")
        ELSE IF AddressFromThrows(l.from) \/ BalanceFromThrows(l.amount)
        THEN Handled(t, "dropped")
        ELSE Called(TokenBurn(t, l.from, l.amount))
    ELSE Handled(t, "ignored")

\* The running state of the replay: the Token and the record of what was done.
Step(st, e, flag) ==
    LET h == ProcessLog(st.token, e, flag) IN
    [token |-> h.token,
     replay |-> Append(st.replay, [log |-> e.log, how |-> h.how, flag |-> flag,
                                   pre |-> st.token, post |-> h.token])]

RECURSIVE SecondPass(_, _, _, _)
SecondPass(st, sLogs, flag, i) ==
    IF i > Len(sLogs) THEN st
    ELSE SecondPass(Step(st, sLogs[i], flag), sLogs, flag, i + 1)

\* Mutant: hasTransferBurn is declared outside the loop and never reset.
ProcessTxFlagKept(st, txLogs) ==
    LET sLogs == sortedLogs(txLogs) IN
    SecondPass(st, sLogs,
               hasTransferBurn(sLogs) \/ \E i \in 1..Len(st.replay) : st.replay[i].flag, 1)

\* Body of the loop over sortedTxEntries for one transaction.
ProcessTx(st, txLogs) ==
    LET sLogs == sortedLogs(txLogs) IN
    SecondPass(st, sLogs, hasTransferBurn(sLogs), 1)

RECURSIVE TxLoop(_, _, _)
TxLoop(st, entries, i) ==
    IF i > Len(entries) THEN st
    ELSE TxLoop(ProcessTx(st, entries[i].txLogs), entries, i + 1)

\* reconstructStateFromEvents on the logs getLogs delivered.
Reconstruct(ls) ==
    TxLoop([token |-> TokenCreate, replay |-> <<>>], sortedTxEntries(logsByTx(ls)), 1)

(***************************************************************************)
(* Direct calls on a Token entity                                          *)
(***************************************************************************)
Amounts == 0..MaxAmount

NoCall == [op |-> "create", from |-> ZeroAddress, to |-> ZeroAddress, amount |-> 0]

\* The model stops growing a balance or the supply at its bound.
WithinBounds(t) ==
    /\ t.totalSupply <= MaxSupply
    /\ \A a \in AddressValues : t.accounts[a] <= MaxBalance

Apply(op, from, to, amount, out) ==
    /\ WithinBounds(out.token)
    /\ token' = out.token
    /\ thrown' = out.error
    /\ call' = [op |-> op, from |-> from, to |-> to, amount |-> amount]
    /\ before' = token
    /\ valid' = (valid /\ out.error = NoError)
    /\ UNCHANGED <<contract, reverted, sent, prior, emitted, logs, returned, replay, pc,
                   serviceVars>>

CallMint ==
    \E to \in AddressValues, amount \in Amounts :
        Apply("mint", ZeroAddress, to, amount, TokenMint(token, to, amount))

CallTransfer ==
    \E from \in AddressValues, to \in AddressValues, amount \in Amounts :
        Apply("transfer", from, to, amount, TokenTransfer(token, from, to, amount))

CallBurn ==
    \E from \in AddressValues, amount \in Amounts :
        Apply("burn", from, ZeroAddress, amount, TokenBurn(token, from, amount))

\* The accounts of the chain, as ethers spells them in a decoded event.
ChainAddresses == {"0x0", "0xa", "0xb"}

\* The contract after deployment: totalSupply = 0, all balances = 0.
Deployed == [balances |-> [a \in ChainAddresses |-> 0], totalSupply |-> 0]

\* No compareState call was made yet.
NoCompare ==
    [stage |-> "idle", account |-> ZeroAddress, storageBalance |-> 0, derivedBalance |-> 0,
     match |-> FALSE, readOk |-> FALSE, logsOk |-> FALSE, error |-> NoError]

\* No ContractRepository call was made yet.
NoLoad ==
    [op |-> "none", stage |-> "idle", token |-> TokenCreate, reconstructionOk |-> FALSE,
     supplyOk |-> FALSE, storageSupply |-> 0, warned |-> FALSE, result |-> "none",
     error |-> NoError]

\* No WalletService call was made yet.
NoWallet ==
    [stage |-> "idle", op |-> "none", signer |-> ZeroAddress, to |-> ZeroAddress,
     amount |-> 0, valid |-> FALSE, error |-> NoError]

\* reconstructStateFromEvents was not called yet.
NoRun ==
    [phase |-> "idle", i |-> 1, byTx |-> <<>>, entries |-> <<>>, t |-> 1, sLogs |-> <<>>,
     sorted |-> FALSE, hasTransferBurn |-> FALSE, resolved |-> FALSE, k |-> 1,
     st |-> [token |-> TokenCreate, replay |-> <<>>]]

\* reconstructStateFromEvents was not called yet: the number of calls made,
\* the logs the last call got, and the logs and the result of the call before.
NoEarlier == [calls |-> 0, seen |-> <<>>, logs |-> <<>>, returned |-> TokenCreate]

\* No transaction was sent yet.
NoTx == [op |-> "deploy", sender |-> ZeroAddress, to |-> ZeroAddress, amount |-> 0]

InitToken ==
    /\ token = TokenCreate
    /\ thrown = NoError
    /\ call = NoCall
    /\ before = TokenCreate
    /\ valid = TRUE
    /\ contract = Deployed
    /\ reverted = NoError
    /\ sent = NoTx
    /\ prior = Deployed
    /\ emitted = <<>>
    /\ logs = <<>>
    /\ returned = TokenCreate
    /\ replay = <<>>
    /\ pc = "idle"
    /\ compared = NoCompare
    /\ loaded = NoLoad
    /\ wallet = NoWallet
    /\ run = NoRun
    /\ earlier = NoEarlier

NextToken == CallMint \/ CallTransfer \/ CallBurn

SpecToken == InitToken /\ [][NextToken]_vars

(***************************************************************************)
(* Token.sol: the on-chain contract                                        *)
(***************************************************************************)
\* Transactions sent to the contract in the model.
MaxTxs == 3

\* Accounts that can sign a transaction (nobody holds the key of address(0)).
Senders == ChainAddresses \ {ZeroAddress}

\* A log of the transaction `tx`, which is alone in its block.
Log(name, from, to, amount, tx, index) ==
    [name |-> name, from |-> from, to |-> to, amount |-> amount,
     transactionHash |-> tx, blockNumber |-> tx, transactionIndex |-> 0, index |-> index]

Result(c, e, events) == [contract |-> c, error |-> e, events |-> events]

\* function mint(address to, uint256 amount)
SolMint(c, to, amount, tx) ==
    IF to = ZeroAddress THEN Result(c, "ZeroAddress", <<>>)
    ELSE IF amount = 0 THEN Result(c, "ZeroAmount", <<>>)
    ELSE Result([c EXCEPT !.totalSupply = @ + amount, !.balances[to] = @ + amount],
                NoError, <<Log("Mint", ZeroAddress, to, amount, tx, 0)>>)

\* transfer as it would be with balances[to] read before balances[from] is
\* written.
SolTransferStaleRead(c, sender, to, amount, tx) ==
    IF to = ZeroAddress THEN Result(c, "ZeroAddress", <<>>)
    ELSE IF amount = 0 THEN Result(c, "ZeroAmount", <<>>)
    ELSE LET fromBalance == c.balances[sender]
             toBalance == c.balances[to] IN
         IF ~(fromBalance >= amount) THEN Result(c, "InsufficientBalance", <<>>)
         ELSE LET c1 == [c EXCEPT !.balances[sender] = fromBalance - amount]
                  c2 == [c1 EXCEPT !.balances[to] = toBalance + amount]
              IN  Result(c2, NoError, <<Log("Transfer", sender, to, amount, tx, 0)>>)

\* transfer as it would be if it pulled the tokens from `to` to msg.sender.
SolTransferPull(c, sender, to, amount, tx) ==
    IF to = ZeroAddress THEN Result(c, "ZeroAddress", <<>>)
    ELSE IF amount = 0 THEN Result(c, "ZeroAmount", <<>>)
    ELSE LET fromBalance == c.balances[to] IN
         IF ~(fromBalance >= amount) THEN Result(c, "InsufficientBalance", <<>>)
         ELSE LET c1 == [c EXCEPT !.balances[to] = fromBalance - amount]
                  c2 == [c1 EXCEPT !.balances[sender] = c1.balances[sender] + amount]
              IN  Result(c2, NoError, <<Log("Transfer", to, sender, amount, tx, 0)>>)

\* function transfer(address to, uint256 amount), from = msg.sender:
\* balances[to] is read again after balances[from] was written.
SolTransfer(c, sender, to, amount, tx) ==
    IF to = ZeroAddress THEN Result(c, "ZeroAddress", <<>>)
    ELSE IF amount = 0 THEN Result(c, "ZeroAmount", <<>>)
    ELSE LET fromBalance == c.balances[sender] IN
         IF ~(fromBalance >= amount) THEN Result(c, "InsufficientBalance", <<>>)
         ELSE LET c1 == [c EXCEPT !.balances[sender] = fromBalance - amount]
                  c2 == [c1 EXCEPT !.balances[to] = c1.balances[to] + amount]
              IN  Result(c2, NoError, <<Log("Transfer", sender, to, amount, tx, 0)>>)

\* burn as it would be if it emitted the Burn event alone.
SolBurnOneEvent(c, sender, amount, tx) ==
    IF amount = 0 THEN Result(c, "ZeroAmount", <<>>)
    ELSE LET fromBalance == c.balances[sender] IN
         IF ~(fromBalance >= amount) THEN Result(c, "InsufficientBalance", <<>>)
         ELSE Result([c EXCEPT !.totalSupply = @ - amount,
                               !.balances[sender] = fromBalance - amount],
                     NoError,
                     <<Log("Burn", sender, ZeroAddress, amount, tx, 0)>>)

\* function burn(uint256 amount), from = msg.sender
SolBurn(c, sender, amount, tx) ==
    IF amount = 0 THEN Result(c, "ZeroAmount", <<>>)
    ELSE LET fromBalance == c.balances[sender] IN
         IF ~(fromBalance >= amount) THEN Result(c, "InsufficientBalance", <<>>)
         ELSE Result([c EXCEPT !.totalSupply = @ - amount,
                               !.balances[sender] = fromBalance - amount],
                     NoError,
                     <<Log("Burn", sender, ZeroAddress, amount, tx, 0),
                       Log("Transfer", sender, ZeroAddress, amount, tx, 1)>>)

\* function balanceOf(address account)
balanceOf(c, account) == c.balances[account]

\* The transaction number of the next transaction: one per successful call.
NextTx == 1 + Cardinality({emitted[i].transactionHash : i \in 1..Len(emitted)})

\* The contract executes a transaction: a revert leaves storage and the event
\* log alone.
Transact(op, sender, to, amount, res) ==
    /\ NextTx <= MaxTxs
    /\ res.contract.totalSupply <= MaxSupply
    /\ contract' = res.contract
    /\ reverted' = res.error
    /\ sent' = [op |-> op, sender |-> sender, to |-> to, amount |-> amount]
    /\ prior' = contract
    /\ emitted' = emitted \o res.events
    /\ pc' = "idle"
    /\ UNCHANGED <<token, thrown, call, before, valid, logs, returned, replay>>

\* A transaction sent to the contract directly is mined.
Mined(op, sender, to, amount, res) ==
    /\ Transact(op, sender, to, amount, res)
    /\ UNCHANGED serviceVars

\* mint has no access control: any account may send it.
SendMint ==
    \E sender \in Senders, to \in ChainAddresses, amount \in Amounts :
        Mined("mint", sender, to, amount, SolMint(contract, to, amount, NextTx))

SendTransfer ==
    \E sender \in Senders, to \in ChainAddresses, amount \in Amounts :
        Mined("transfer", sender, to, amount,
              SolTransfer(contract, sender, to, amount, NextTx))

SendBurn ==
    \E sender \in Senders, amount \in Amounts :
        Mined("burn", sender, ZeroAddress, amount, SolBurn(contract, sender, amount, NextTx))

\* reconstructStateFromEvents with getLogs delivering every event emitted so far.
ReconstructFromChain ==
    /\ pc = "idle"
    /\ logs' = emitted
    /\ returned' = Reconstruct(emitted).token
    /\ replay' = Reconstruct(emitted).replay
    /\ pc' = "returned"
    /\ UNCHANGED <<token, thrown, call, before, valid, contract, reverted, sent, prior, emitted,
                   serviceVars>>

NextChain == SendMint \/ SendTransfer \/ SendBurn \/ ReconstructFromChain

SpecChain == InitToken /\ [][NextChain]_vars

(***************************************************************************)
(* The same operation applied to the Token entity and sent to the contract *)
(***************************************************************************)
\* Number of operations that succeed on the contract when every operation
\* is made on both ledgers.
MaxMirrorTxs == 2

\* One operation, made on the Token entity and mined by the contract.
Both(op, from, to, amount, out, res) ==
    /\ WithinBounds(out.token)
    /\ NextTx <= MaxMirrorTxs
    /\ res.contract.totalSupply <= MaxSupply
    /\ token' = out.token
    /\ thrown' = out.error
    /\ call' = [op |-> op, from |-> from, to |-> to, amount |-> amount]
    /\ before' = token
    /\ valid' = (valid /\ out.error = NoError)
    /\ contract' = res.contract
    /\ reverted' = res.error
    /\ sent' = [op |-> op, sender |-> from, to |-> to, amount |-> amount]
    /\ prior' = contract
    /\ emitted' = emitted \o res.events
    /\ UNCHANGED <<logs, returned, replay, pc, serviceVars>>

BothMint ==
    \E sender \in Senders, to \in ChainAddresses, amount \in Amounts :
        Both("mint", sender, to, amount,
             TokenMint(token, to, amount), SolMint(contract, to, amount, NextTx))

BothTransfer ==
    \E from \in Senders, to \in ChainAddresses, amount \in Amounts :
        Both("transfer", from, to, amount,
             TokenTransfer(token, from, to, amount),
             SolTransfer(contract, from, to, amount, NextTx))

BothBurn ==
    \E from \in Senders, amount \in Amounts :
        Both("burn", from, ZeroAddress, amount,
             TokenBurn(token, from, amount), SolBurn(contract, from, amount, NextTx))

NextMirror == BothMint \/ BothTransfer \/ BothBurn

SpecMirror == InitToken /\ [][NextMirror]_vars

(***************************************************************************)
(* The application services, next to a contract that other accounts use    *)
(***************************************************************************)
\* Number of transactions mined while the services are observed.
MaxServiceTxs == 2

\* Transactions of any account, mined before, between and after the calls a
\* service makes to the provider.
Traffic == NextTx <= MaxServiceTxs /\ (SendMint \/ SendTransfer \/ SendBurn)

(***************************************************************************)
(* StateQueryService.compareState                                          *)
(***************************************************************************)
\* A call to the provider that rejected.
ProviderError == "provider error"

\* The account of the contract an address string names.
ChainAccount(address) == toLowerCase(address)

\* Mutant: a mismatch is thrown.
compareStateStrict(c, storageBalance, reconstructedToken) ==
    LET derivedBalance == getBalance(reconstructedToken, c.account) IN
    [c EXCEPT !.stage = "done", !.logsOk = TRUE,
              !.derivedBalance = derivedBalance,
              !.match = (storageBalance = derivedBalance),
              !.error = IF storageBalance = derivedBalance THEN NoError
                        ELSE "State mismatch"]

\* compareState from the return of reconstructStateFromEvents on: the derived
\* balance is read from the reconstructed Token and compared with the storage
\* balance (Balance.equals); the three are returned.
compareState(c, storageBalance, reconstructedToken) ==
    LET derivedBalance == getBalance(reconstructedToken, c.account) IN
    [c EXCEPT !.stage = "done", !.logsOk = TRUE,
              !.derivedBalance = derivedBalance,
              !.match = (storageBalance = derivedBalance),
              !.error = NoError]

\* compareState up to the return of getTokenBalance: provider.call answers
\* with balanceOf(account) or rejects, and the rejection leaves compareState.
CompareRead ==
    /\ compared.stage # "read"
    /\ \E account \in AddressValues, ok \in BOOLEAN :
          compared' =
              IF ok
              THEN [NoCompare EXCEPT !.stage = "read", !.account = account, !.readOk = TRUE,
                                     !.storageBalance =
                                         balanceOf(contract, ChainAccount(account))]
              ELSE [NoCompare EXCEPT !.stage = "done", !.account = account,
                                     !.error = ProviderError]
    /\ UNCHANGED <<token, thrown, call, before, valid, contract, reverted, sent, prior, emitted,
                   logs, returned, replay, pc, loaded, wallet, run, earlier>>

\* The rest of compareState: reconstructStateFromEvents on the events emitted
\* by now (or a rejection of the provider), then the comparison.
CompareReconstruct ==
    /\ compared.stage = "read"
    /\ \E ok \in BOOLEAN :
          compared' =
              IF ok
              THEN compareState(compared, compared.storageBalance, Reconstruct(emitted).token)
              ELSE [compared EXCEPT !.stage = "done", !.error = ProviderError]
    /\ UNCHANGED <<token, thrown, call, before, valid, contract, reverted, sent, prior, emitted,
                   logs, returned, replay, pc, loaded, wallet, run, earlier>>

\* Transactions are mined while compareState awaits the provider.
NextCompare == Traffic \/ CompareRead \/ CompareReconstruct

SpecCompare == InitToken /\ [][NextCompare]_vars

(***************************************************************************)
(* ContractRepository                                                      *)
(***************************************************************************)
\* Mutant: fail-fast, a mismatch of the two supplies makes getByAddress
\* return null.
getByAddressFailFast(l, totalSupply) ==
    LET currentSupply == getTotalSupply(l.token) IN
    [l EXCEPT !.stage = "done", !.supplyOk = TRUE, !.storageSupply = totalSupply,
              !.warned = (totalSupply # currentSupply),
              !.result = IF totalSupply # currentSupply THEN "null" ELSE "token"]

\* getByAddress from the return of getTotalSupply on: the supplies are
\* compared, a mismatch is logged with console.warn, the reconstructed Token
\* is returned.
getByAddressVerify(l, totalSupply) ==
    LET currentSupply == getTotalSupply(l.token) IN
    [l EXCEPT !.stage = "done", !.supplyOk = TRUE, !.storageSupply = totalSupply,
              !.warned = (totalSupply # currentSupply),
              !.result = "token"]

\* The catch block of getByAddress: console.error, return null.
getByAddressCatch(l) == [l EXCEPT !.stage = "done", !.result = "null"]

\* getByAddress up to the return of reconstructStateFromEvents (or to the
\* catch block, when the provider rejected).
LoadReconstruct ==
    /\ loaded.stage # "reconstructed"
    /\ \E ok \in BOOLEAN :
          loaded' =
              IF ok
              THEN [NoLoad EXCEPT !.op = "getByAddress", !.stage = "reconstructed",
                                  !.reconstructionOk = TRUE,
                                  !.token = Reconstruct(emitted).token]
              ELSE getByAddressCatch([NoLoad EXCEPT !.op = "getByAddress"])
    /\ UNCHANGED <<token, thrown, call, before, valid, contract, reverted, sent, prior, emitted,
                   logs, returned, replay, pc, compared, wallet, run, earlier>>

\* The rest of getByAddress: getTotalSupply reads the storage as it is by now
\* (or the provider rejects).
LoadVerify ==
    /\ loaded.stage = "reconstructed"
    /\ \E ok \in BOOLEAN :
          loaded' = IF ok THEN getByAddressVerify(loaded, contract.totalSupply)
                          ELSE getByAddressCatch(loaded)
    /\ UNCHANGED <<token, thrown, call, before, valid, contract, reverted, sent, prior, emitted,
                   logs, returned, replay, pc, compared, wallet, run, earlier>>

\* save(token): throws, whatever the Token.
Save ==
    /\ loaded.stage # "reconstructed"
    /\ loaded' = [NoLoad EXCEPT !.op = "save", !.stage = "done",
                                !.error = "Token state cannot be saved directly"]
    /\ UNCHANGED <<token, thrown, call, before, valid, contract, reverted, sent, prior, emitted,
                   logs, returned, replay, pc, compared, wallet, run, earlier>>

NextRepository == Traffic \/ LoadReconstruct \/ LoadVerify \/ Save

SpecRepository == InitToken /\ [][NextRepository]_vars

(***************************************************************************)
(* WalletService.transfer / mint / burn                                    *)
(***************************************************************************)
\* The account of the wallet: a WalletService is built around one signer.
Signer == "0xa"

\* Mutant: the transaction is encoded and sent whatever the validation said.
PreflightIgnored(w, validation) ==
    [w EXCEPT !.valid = validation.valid, !.stage = "validated"]

\* `if (!validation.valid) throw new Error(...)`: the call goes on to encode
\* and send the transaction only when the validation is valid.
Preflight(w, validation) ==
    IF ~validation.valid
    THEN [w EXCEPT !.valid = FALSE, !.stage = "thrown", !.error = "validation failed"]
    ELSE [w EXCEPT !.valid = TRUE, !.stage = "validated"]

\* A WalletService call from its start to the validation: the state is
\* reconstructed from the events emitted so far (or the provider rejects and
\* the rejection leaves the call), then validated.
Begin(op, signer, to, amount, ok, validation) ==
    /\ wallet.stage # "validated"
    /\ wallet' =
          LET w == [NoWallet EXCEPT !.op = op, !.signer = signer, !.to = to,
                                    !.amount = amount]
          IN  IF ok THEN Preflight(w, validation)
              ELSE [w EXCEPT !.stage = "thrown", !.error = ProviderError]
    /\ UNCHANGED <<token, thrown, call, before, valid, contract, reverted, sent, prior, emitted,
                   logs, returned, replay, pc, compared, loaded, run, earlier>>

\* WalletService.transfer(to, amount), from = the address of the signer
WalletTransfer ==
    \E to \in ChainAddresses, amount \in Amounts, ok \in BOOLEAN :
        Begin("transfer", Signer, to, amount, ok,
              validateTransfer(Reconstruct(emitted).token, Signer, to, amount))

\* WalletService.mint(to, amount)
WalletMint ==
    \E to \in ChainAddresses, amount \in Amounts, ok \in BOOLEAN :
        Begin("mint", Signer, to, amount, ok,
              validateMint(Reconstruct(emitted).token, to, amount))

\* WalletService.burn(amount), from = the address of the signer
WalletBurn ==
    \E amount \in Amounts, ok \in BOOLEAN :
        Begin("burn", Signer, ZeroAddress, amount, ok,
              validateBurn(Reconstruct(emitted).token, Signer, amount))

\* The transaction the call encoded.
Encoded(w) ==
    IF w.op = "mint" THEN SolMint(contract, w.to, w.amount, NextTx)
    ELSE IF w.op = "transfer" THEN SolTransfer(contract, w.signer, w.to, w.amount, NextTx)
    ELSE SolBurn(contract, w.signer, w.amount, NextTx)

\* sendTransaction: the signer sends the encoded transaction and the
\* contract executes it.
WalletSend ==
    /\ wallet.stage = "validated"
    /\ NextTx <= MaxServiceTxs
    /\ Transact(wallet.op, wallet.signer, wallet.to, wallet.amount, Encoded(wallet))
    /\ wallet' = [wallet EXCEPT !.stage = "submitted"]
    /\ UNCHANGED <<compared, loaded, run, earlier>>

NextWallet == WalletTransfer \/ WalletMint \/ WalletBurn \/ WalletSend

SpecWallet == InitToken /\ [][NextWallet]_vars

(***************************************************************************)
(* Reconstruction from the records a provider delivers                     *)
(***************************************************************************)
\* Number of raw records getLogs delivers.
MaxLogs == 3

\* The events of the model: the three events of the interface, a Transfer to
\* oneself, a Transfer to address(0), a Transfer to address(0) whose `from`
\* does not parse, and a log of an event the interface does not know.
Events ==
    { [name |-> "Mint", from |-> "0x0", to |-> "0xa", amount |-> 1],
      [name |-> "Transfer", from |-> "0xa", to |-> "0xb", amount |-> 1],
      [name |-> "Transfer", from |-> "0xa", to |-> "0xa", amount |-> 1],
      [name |-> "Burn", from |-> "0xa", to |-> "0x0", amount |-> 1],
      [name |-> "Transfer", from |-> "0xa", to |-> "0x0", amount |-> 1],
      [name |-> "Transfer", from |-> "bad", to |-> "0x0", amount |-> 1],
      [name |-> "Approval", from |-> "0xa", to |-> "0xb", amount |-> 1] }

\* Where a record sits: its transaction and its ordering coordinates.
Placements ==
    { [transactionHash |-> 1, blockNumber |-> 1, transactionIndex |-> 0, index |-> 0],
      [transactionHash |-> 1, blockNumber |-> 1, transactionIndex |-> 0, index |-> 1],
      [transactionHash |-> 2, blockNumber |-> 1, transactionIndex |-> 1, index |-> Null],
      [transactionHash |-> 2, blockNumber |-> Null, transactionIndex |-> Null, index |-> 0] }

RawRecords ==
    { [name |-> e.name, from |-> e.from, to |-> e.to, amount |-> e.amount,
       transactionHash |-> p.transactionHash, blockNumber |-> p.blockNumber,
       transactionIndex |-> p.transactionIndex, index |-> p.index] :
      e \in Events, p \in Placements }

\* The provider holds one more record; getLogs will deliver it after the others.
ProviderLog ==
    /\ pc = "idle"
    /\ Len(logs) < MaxLogs
    /\ \E r \in RawRecords : logs' = Append(logs, r)
    /\ UNCHANGED <<token, thrown, call, before, valid, contract, reverted, sent, prior,
                   emitted, returned, replay, pc, serviceVars>>

\* reconstructStateFromEvents, from getLogs to `return token`.
ReconstructStateFromEvents ==
    /\ pc = "idle"
    /\ returned' = Reconstruct(logs).token
    /\ replay' = Reconstruct(logs).replay
    /\ pc' = "returned"
    /\ UNCHANGED <<token, thrown, call, before, valid, contract, reverted, sent, prior, emitted,
                   logs, serviceVars>>

NextRecon == ProviderLog \/ ReconstructStateFromEvents

SpecRecon == InitToken /\ [][NextRecon]_vars

(***************************************************************************)
(* Reconstruction of a funded account followed by one burning transaction  *)
(***************************************************************************)
\* Number of records of the burning transaction.
MaxBurnLogs == 4

\* Amount minted to the holder before the burning transaction: enough for
\* every burn the transaction can hold.
Funding == MaxAmount * (MaxBurnLogs + 1)

Holder == "0xa"

\* The Mint of the funding transaction (transaction 1, block 1).
FundingLog ==
    [name |-> "Mint", from |-> ZeroAddress, to |-> Holder, amount |-> Funding,
     transactionHash |-> 1, blockNumber |-> 1, transactionIndex |-> 0, index |-> 0]

\* The records of the burning transaction (transaction 2, block 2): Burn and
\* Transfer-to-zero events of the holder, at any log index or without one.
BurnTxRecords ==
    { [name |-> n, from |-> Holder, to |-> ZeroAddress, amount |-> m,
       transactionHash |-> 2, blockNumber |-> 2, transactionIndex |-> 0, index |-> i] :
      n \in {"Burn", "Transfer"}, m \in 1..MaxAmount, i \in {Null, 1} }

ProviderFundingLog ==
    /\ pc = "idle"
    /\ logs = <<>>
    /\ logs' = <<FundingLog>>
    /\ UNCHANGED <<token, thrown, call, before, valid, contract, reverted, sent, prior,
                   emitted, returned, replay, pc, serviceVars>>

ProviderBurnLog ==
    /\ pc = "idle"
    /\ Len(logs) >= 1
    /\ Len(logs) < 1 + MaxBurnLogs
    /\ \E r \in BurnTxRecords : logs' = Append(logs, r)
    /\ UNCHANGED <<token, thrown, call, before, valid, contract, reverted, sent, prior,
                   emitted, returned, replay, pc, serviceVars>>

NextBurnTx == ProviderFundingLog \/ ProviderBurnLog \/ ReconstructStateFromEvents

SpecBurnTx == InitToken /\ [][NextBurnTx]_vars

(***************************************************************************)
(* Reconstruction of the records of one transaction                        *)
(***************************************************************************)
\* Number of records of the transaction.
MaxUnitLogs == 3

\* Mint events of one transaction (told apart by their amount), each with a
\* block number and a log index of its own, or without them.
UnitRecords ==
    { [name |-> "Mint", from |-> ZeroAddress, to |-> Holder, amount |-> m,
       transactionHash |-> 1, blockNumber |-> b, transactionIndex |-> 0, index |-> i] :
      m \in 1..MaxAmount, b \in {Null, 1, 2}, i \in {Null, 0, 1} }

ProviderUnitLog ==
    /\ pc = "idle"
    /\ Len(logs) < MaxUnitLogs
    /\ \E r \in UnitRecords : logs' = Append(logs, r)
    /\ UNCHANGED <<token, thrown, call, before, valid, contract, reverted, sent, prior,
                   emitted, returned, replay, pc, serviceVars>>

NextUnit == ProviderUnitLog \/ ReconstructStateFromEvents

SpecUnit == InitToken /\ [][NextUnit]_vars

(***************************************************************************)
(* reconstructStateFromEvents, statement by statement                      *)
(***************************************************************************)
\* Number of records getLogs delivers.
MaxStageLogs == 3

\* Records of two transactions, the one delivered under hash 1 mined after
\* the one under hash 2: a Mint, a Transfer to the zero address and a Burn of
\* the holder, at log index 0 or 1.
StageRecords ==
    { [name |-> e[1], from |-> e[2], to |-> e[3], amount |-> 1,
       transactionHash |-> tx, blockNumber |-> 3 - tx, transactionIndex |-> 0, index |-> i] :
      e \in {<<"Mint", ZeroAddress, Holder>>, <<"Transfer", Holder, ZeroAddress>>,
             <<"Burn", Holder, ZeroAddress>>},
      tx \in {1, 2}, i \in {0, 1} }

\* Every variable but logs and run.
OutsideRun ==
    <<token, thrown, call, before, valid, contract, reverted, sent, prior, emitted,
      returned, replay, pc, compared, loaded, wallet, earlier>>

\* The provider holds one more record.
ProviderStageLog ==
    /\ run.phase = "idle"
    /\ Len(logs) < MaxStageLogs
    /\ \E r \in StageRecords : logs' = Append(logs, r)
    /\ UNCHANGED <<OutsideRun, run>>

\* Token.create and `await this.provider.getLogs(filter)`.
GetLogs ==
    /\ run.phase = "idle"
    /\ run' = [NoRun EXCEPT !.phase = "parse"]
    /\ UNCHANGED <<OutsideRun, logs>>

\* One iteration of the parse loop.
ParseLog ==
    /\ run.phase = "parse"
    /\ run.i <= Len(logs)
    /\ run' = [run EXCEPT !.byTx = PushLog(@, logs[run.i]), !.i = @ + 1]
    /\ UNCHANGED <<OutsideRun, logs>>

\* Mutant: the transactions are sorted as soon as one record was parsed.
ParseLoopDoneEarly(r) == r.i > 1

\* The parse loop ran over every log.
ParseLoopDone(r) == r.i > Len(logs)

\* const sortedTxEntries = Array.from(logsByTx.entries()).sort(...)
SortTransactions ==
    /\ run.phase = "parse"
    /\ ParseLoopDone(run)
    /\ run' = [run EXCEPT !.phase = "loop", !.entries = sortedTxEntries(run.byTx)]
    /\ UNCHANGED <<OutsideRun, logs>>

\* const sortedLogs = txLogs.sort(...), first statement of the loop body
SortLogs ==
    /\ run.phase = "loop"
    /\ run.t <= Len(run.entries)
    /\ ~run.sorted
    /\ run' = [run EXCEPT !.sLogs = sortedLogs(run.entries[run.t].txLogs), !.sorted = TRUE]
    /\ UNCHANGED <<OutsideRun, logs>>

\* The first pass over sortedLogs: hasTransferBurn.
FirstPass ==
    /\ run.phase = "loop"
    /\ run.sorted
    /\ ~run.resolved
    /\ run' = [run EXCEPT !.hasTransferBurn = hasTransferBurn(run.sLogs), !.resolved = TRUE]
    /\ UNCHANGED <<OutsideRun, logs>>

\* Mutant: the second pass starts as soon as the logs are sorted.
SecondPassOpenEarly(r) == r.sorted

\* The second pass comes after the first pass in the loop body.
SecondPassOpen(r) == r.resolved

\* One iteration of the second pass.
SecondPassStep ==
    /\ run.phase = "loop"
    /\ SecondPassOpen(run)
    /\ run.k <= Len(run.sLogs)
    /\ run' = [run EXCEPT !.st = Step(@, run.sLogs[run.k], run.hasTransferBurn),
                          !.k = @ + 1]
    /\ UNCHANGED <<OutsideRun, logs>>

\* End of the loop body: on to the next entry of sortedTxEntries.
NextTransaction ==
    /\ run.phase = "loop"
    /\ run.resolved
    /\ run.k > Len(run.sLogs)
    /\ run' = [run EXCEPT !.t = @ + 1, !.sLogs = <<>>, !.sorted = FALSE,
                          !.hasTransferBurn = FALSE, !.resolved = FALSE, !.k = 1]
    /\ UNCHANGED <<OutsideRun, logs>>

\* return token
ReturnToken ==
    /\ run.phase = "loop"
    /\ run.t > Len(run.entries)
    /\ run' = [run EXCEPT !.phase = "done"]
    /\ returned' = run.st.token
    /\ replay' = run.st.replay
    /\ pc' = "returned"
    /\ UNCHANGED <<token, thrown, call, before, valid, contract, reverted, sent, prior, emitted,
                   logs, compared, loaded, wallet, earlier>>

NextStages ==
    \/ ProviderStageLog \/ GetLogs \/ ParseLog \/ SortTransactions \/ SortLogs
    \/ FirstPass \/ SecondPassStep \/ NextTransaction \/ ReturnToken

SpecStages == InitToken /\ [][NextStages]_vars

(***************************************************************************)
(* reconstructStateFromEvents, call after call                             *)
(***************************************************************************)
\* Number of calls made on one StateQueryService.
MaxCalls == 3

\* Mutant: the service keeps the Token of its last call and replays into it.
TokenKept(previous) == previous

\* const token = Token.create(tokenAddress): the Token a call replays into,
\* whatever the call before returned.
TokenOfCall(previous) == TokenCreate

\* reconstructStateFromEvents called on a service whose last call returned
\* `previous`.
ReconstructAfter(previous, ls) ==
    TxLoop([token |-> TokenOfCall(previous), replay |-> <<>>],
           sortedTxEntries(logsByTx(ls)), 1)

\* The provider holds one more record, before or between the calls.
ProviderLaterLog ==
    /\ Len(logs) < MaxStageLogs
    /\ \E r \in StageRecords : logs' = Append(logs, r)
    /\ UNCHANGED <<token, thrown, call, before, valid, contract, reverted, sent, prior,
                   emitted, returned, replay, pc, serviceVars>>

\* One more call of reconstructStateFromEvents on the same service.
ReconstructOnceMore ==
    /\ earlier.calls < MaxCalls
    /\ returned' = ReconstructAfter(returned, logs).token
    /\ replay' = ReconstructAfter(returned, logs).replay
    /\ pc' = "returned"
    /\ earlier' = [calls |-> earlier.calls + 1, seen |-> logs,
                   logs |-> earlier.seen, returned |-> returned]
    /\ UNCHANGED <<token, thrown, call, before, valid, contract, reverted, sent, prior,
                   emitted, logs, compared, loaded, wallet, run>>

NextReplay == ProviderLaterLog \/ ReconstructOnceMore

SpecReplay == InitToken /\ [][NextReplay]_vars

(***************************************************************************)
(* Properties                                                              *)
(***************************************************************************)
Indexes(s) == 1..Len(s)

RECURSIVE SumAmounts(_, _)
SumAmounts(s, i) == IF i > Len(s) THEN 0 ELSE s[i].amount + SumAmounts(s, i + 1)

IsTransferToZero(l) == l.name = "Transfer" /\ l.to = ZeroAddress
IsBurn(l) == l.name = "Burn"

\* The records of the burning transaction, in delivery order.
BurnTxLogs == SelectSeq(logs, LAMBDA l : l.transactionHash = 2)
CanonicalLogs == SelectSeq(BurnTxLogs, IsTransferToZero)
ExplicitLogs == SelectSeq(BurnTxLogs, IsBurn)

\* How many records of the sequence carry the amount m.
CountAmount(s, m) == Cardinality({i \in Indexes(s) : s[i].amount = m})

\* The Burn events and the Transfer-to-zero events describe the same burns.
SameBurns ==
    /\ Len(CanonicalLogs) >= 1
    /\ \A m \in 1..MaxAmount : CountAmount(CanonicalLogs, m) = CountAmount(ExplicitLogs, m)

\* Replay entries of the burning transaction that a Token.burn call answered.
BurnsApplied == {i \in Indexes(replay) : replay[i].log.transactionHash = 2
                                          /\ replay[i].how = "applied"}

\* C1: starting from Token.create, after every call of a sequence of mint,
\* transfer and burn calls that all passed, verifyInvariant() is true.
C1_InvariantPreserved == valid => verifyInvariant(token)

\* C2: the Token reconstructed from all the events the contract emitted has
\* the contract's balanceOf for every account and the contract's totalSupply.
C2_ReconstructionMatchesContract ==
    pc = "returned" =>
        /\ \A a \in ChainAddresses : getBalance(returned, a) = balanceOf(contract, a)
        /\ getTotalSupply(returned) = contract.totalSupply

\* The delivery order with the records at places i and i + 1 exchanged.
Swap(s, i) == [s EXCEPT ![i] = s[i + 1], ![i + 1] = s[i]]

\* C3: the reconstructed state is the same for every order in which getLogs
\* delivers the same records (every permutation is a chain of exchanges of
\* neighbours).
C3_OrderIndependence ==
    pc = "returned" =>
        \A i \in 1..(Len(logs) - 1) : Reconstruct(Swap(logs, i)).token = returned

\* C4: a transaction with k Transfer-to-zero events and k Burn events for the
\* same k burns reduces the holder's balance and totalSupply by the k
\* canonical amounts, once each: k burns are applied, every Burn is skipped.
C4_ExactlyOnceBurn ==
    (pc = "returned" /\ SameBurns) =>
        /\ getBalance(returned, Holder) = Funding - SumAmounts(CanonicalLogs, 1)
        /\ getTotalSupply(returned) = Funding - SumAmounts(CanonicalLogs, 1)
        /\ Cardinality(BurnsApplied) = Len(CanonicalLogs)
        /\ \A i \in Indexes(replay) : IsBurn(replay[i].log) => replay[i].how = "skipped"

\* Two burns of different amounts, a Burn replayed ahead of a Transfer to
\* address(0) and another one behind it.
C4_Witness ==
    /\ pc = "returned"
    /\ SameBurns
    /\ Len(CanonicalLogs) = 2
    /\ CanonicalLogs[1].amount # CanonicalLogs[2].amount
    /\ \E i, j, k \in Indexes(replay) :
          /\ i < j /\ j < k
          /\ IsBurn(replay[i].log) /\ IsTransferToZero(replay[j].log)
          /\ IsBurn(replay[k].log)
    /\ getTotalSupply(returned) = Funding - 3

\* C5: in a transaction with Burn events and no Transfer-to-zero event every
\* Burn is applied once: balance and totalSupply fall by its amount, once.
C5_FallbackBurn ==
    (pc = "returned" /\ Len(CanonicalLogs) = 0 /\ Len(ExplicitLogs) >= 1) =>
        /\ getBalance(returned, Holder) = Funding - SumAmounts(ExplicitLogs, 1)
        /\ getTotalSupply(returned) = Funding - SumAmounts(ExplicitLogs, 1)
        /\ Cardinality(BurnsApplied) = Len(ExplicitLogs)

C5_Witness ==
    /\ pc = "returned"
    /\ Len(CanonicalLogs) = 0
    /\ Len(ExplicitLogs) = 1
    /\ getBalance(returned, Holder) = Funding - ExplicitLogs[1].amount

\* C6: a mint, transfer or burn call that throws leaves every balance and
\* totalSupply as they were before the call.
C6_AtomicRejection == thrown # NoError => token = before

\* The records of a transaction that the parse pass keeps.
Members(tx) == {i \in Indexes(logs) : parseLog(logs[i]) /\ logs[i].transactionHash = tx}

Coordinate(l) ==
    <<IF l.blockNumber = Null THEN 0 ELSE l.blockNumber,
      IF l.transactionIndex = Null THEN 0 ELSE l.transactionIndex>>

\* (blockNumber, transactionIndex) pairs in ascending order.
Precedes(c, d) == c[1] < d[1] \/ (c[1] = d[1] /\ c[2] <= d[2])

\* The least coordinate among the records of a transaction.
MinCoordinate(tx) ==
    CHOOSE c \in {Coordinate(logs[i]) : i \in Members(tx)} :
        \A i \in Members(tx) : Precedes(c, Coordinate(logs[i]))

\* C7: transactions are replayed whole and in ascending order of their least
\* (blockNumber, transactionIndex), whatever the delivery order; a mint of an
\* earlier transaction is applied before the transfer of a later transaction
\* that spends it, with no precondition error.
C7_CrossUnitOrdering ==
    pc = "returned" =>
        /\ \A i, j \in Indexes(replay) :
              i < j => Precedes(MinCoordinate(replay[i].log.transactionHash),
                                MinCoordinate(replay[j].log.transactionHash))
        /\ \A i, j, k \in Indexes(replay) :
              (i < j /\ j < k
               /\ replay[i].log.transactionHash = replay[k].log.transactionHash)
              => replay[j].log.transactionHash = replay[i].log.transactionHash
        /\ Len(replay) = Cardinality({i \in Indexes(logs) : parseLog(logs[i])})
        /\ (/\ Len(logs) = 2
            /\ logs[1].name = "Transfer" /\ logs[1].to = "0xb"
            /\ logs[2].name = "Mint"
            /\ logs[1].transactionHash # logs[2].transactionHash
            /\ ~Precedes(Coordinate(logs[1]), Coordinate(logs[2])))
           => /\ \A i \in Indexes(replay) : replay[i].how = "applied"
              /\ returned = Reconstruct(<<logs[2], logs[1]>>).token
              /\ getBalance(returned, "0xb") = 1

\* The transfer is delivered before the mint it spends.
C7_Witness ==
    /\ pc = "returned"
    /\ Len(logs) = 2
    /\ logs[1].name = "Transfer" /\ logs[1].to = "0xb"
    /\ logs[2].name = "Mint"
    /\ logs[1].transactionHash # logs[2].transactionHash
    /\ ~Precedes(Coordinate(logs[1]), Coordinate(logs[2]))
    /\ replay[1].log = logs[2]
    /\ getBalance(returned, "0xb") = 1

\* C8: every Token that reconstructStateFromEvents returns satisfies
\* verifyInvariant().
C8_ReturnedInvariant == pc = "returned" => verifyInvariant(returned)

\* C9: when a Token call fails during the replay, the reconstruction does not
\* return a Token.
C9_FailureReachesCaller ==
    pc = "returned" => \A i \in Indexes(replay) : replay[i].how # "failed"

\* A record with an address or an amount that does not parse.
Malformed(l) ==
    \/ (l.name \in {"Transfer", "Burn"} /\ AddressFromThrows(l.from))
    \/ (l.name \in {"Transfer", "Mint"} /\ AddressFromThrows(l.to))
    \/ BalanceFromThrows(l.amount)

Remove(s, i) == SubSeq(s, 1, i - 1) \o SubSeq(s, i + 1, Len(s))

\* C10: the state returned equals the state reconstructed from the same
\* records without the malformed one.
C10_DroppedRecordHasNoInfluence ==
    pc = "returned" =>
        \A i \in Indexes(logs) :
            Malformed(logs[i]) => Reconstruct(Remove(logs, i)).token = returned

(***************************************************************************)
(* The three operations of the Token entity, call by call                  *)
(***************************************************************************)
Succeeded(op) == call.op = op /\ thrown = NoError

\* The accounts a call leaves alone.
OthersUnchanged(touched) ==
    \A a \in AddressValues \ touched : getBalance(token, a) = getBalance(before, a)

C14_BurnFailsExactlyWhen ==
    call.op = "burn" =>
        (thrown # NoError <=>
            (call.amount = 0 \/ getBalance(before, call.from) < call.amount))

\* C15: a successful Token.transfer moves amount from from to to as a net
\* movement (nothing changes when from = to) and leaves totalSupply and every
\* other balance unchanged.
C15_TransferFrame ==
    Succeeded("transfer") =>
        /\ \A a \in AddressValues :
              getBalance(token, a) =
                  getBalance(before, a)
                  - (IF a = call.from THEN call.amount ELSE 0)
                  + (IF a = call.to THEN call.amount ELSE 0)
        /\ getTotalSupply(token) = getTotalSupply(before)

\* C16: a successful Token.mint increases the balance of to and totalSupply
\* by exactly amount and leaves every other balance unchanged.
C16_MintFrame ==
    Succeeded("mint") =>
        /\ getBalance(token, call.to) = getBalance(before, call.to) + call.amount
        /\ getTotalSupply(token) = getTotalSupply(before) + call.amount
        /\ OthersUnchanged({call.to})

\* A mint to an account that holds tokens, next to another holder.
C16_Witness ==
    /\ Succeeded("mint")
    /\ getBalance(before, call.to) > 0
    /\ \E a \in AddressValues \ {call.to} : getBalance(before, a) > 0

\* C17: a successful Token.burn decreases the balance of from and totalSupply
\* by exactly amount and leaves every other balance unchanged.
C17_BurnFrame ==
    Succeeded("burn") =>
        /\ getBalance(token, call.from) = getBalance(before, call.from) - call.amount
        /\ getTotalSupply(token) = getTotalSupply(before) - call.amount
        /\ OthersUnchanged({call.from})

\* A burn of part of a balance, next to another holder.
C17_Witness ==
    /\ Succeeded("burn")
    /\ getBalance(token, call.from) > 0
    /\ \E a \in AddressValues \ {call.from} : getBalance(before, a) > 0

\* C18: validateTransfer / validateMint / validateBurn returns valid = true
\* on a Token state exactly when the corresponding Token call made on that
\* state succeeds.
C18_ValidatorsAgree ==
    /\ call.op = "transfer" =>
          (validateTransfer(before, call.from, call.to, call.amount).valid
              <=> thrown = NoError)
    /\ call.op = "mint" =>
          (validateMint(before, call.to, call.amount).valid <=> thrown = NoError)
    /\ call.op = "burn" =>
          (validateBurn(before, call.from, call.amount).valid <=> thrown = NoError)

(***************************************************************************)
(* The on-chain contract                                                   *)
(***************************************************************************)
\* C19: after any sequence of mint / transfer / burn transactions by any
\* senders, reverted ones included, the balances of the contract add up to
\* its totalSupply.
C19_SumBalancesEqualsTotalSupply ==
    SumOver(contract.balances, ChainAddresses) = contract.totalSupply

\* A transfer of an account to itself went through while tokens exist.
C19_Witness ==
    /\ sent.op = "transfer"
    /\ sent.sender = sent.to
    /\ reverted = NoError
    /\ contract.totalSupply > 0

\* C20: the balance of an account decreases only in a transfer or a burn that
\* the account sent itself.
C20_SelfOnlyAuthorization ==
    \A a \in ChainAddresses :
        balanceOf(contract, a) < balanceOf(prior, a) =>
            sent.op \in {"transfer", "burn"} /\ sent.sender = a

\* A transfer moved tokens out of the sender's balance while the recipient
\* held tokens too.
C20_Witness ==
    /\ sent.op = "transfer"
    /\ reverted = NoError
    /\ sent.to # sent.sender
    /\ balanceOf(prior, sent.to) > 0
    /\ balanceOf(contract, sent.sender) < balanceOf(prior, sent.sender)

\* The Token entity and the contract hold the same balances and totalSupply.
SameLedger(t, c) ==
    /\ getTotalSupply(t) = c.totalSupply
    /\ \A a \in ChainAddresses : getBalance(t, a) = balanceOf(c, a)

\* C11: when the same operations are made on the Token entity and on the
\* contract, the entity throws exactly when the contract reverts, and when
\* both succeed they hold equal balances and totalSupply.
C11_OffChainMirrorsOnChain ==
    /\ thrown = NoError <=> reverted = NoError
    /\ (thrown = NoError /\ reverted = NoError) => SameLedger(token, contract)

\* The name, from, to and amount of an emitted event.
Signature(l) == <<l.name, l.from, l.to, l.amount>>

Signatures(ls) == [i \in 1..Len(ls) |-> Signature(ls[i])]

\* The events the claim expects of a transaction.
ExpectedEvents(tx, error) ==
    IF error # NoError THEN <<>>
    ELSE IF tx.op = "mint" THEN <<<<"Mint", ZeroAddress, tx.to, tx.amount>>>>
    ELSE IF tx.op = "transfer" THEN <<<<"Transfer", tx.sender, tx.to, tx.amount>>>>
    ELSE <<<<"Burn", tx.sender, ZeroAddress, tx.amount>>,
           <<"Transfer", tx.sender, ZeroAddress, tx.amount>>>>

\* The events emitted since the step started.
NewEvents == SubSeq(emitted', Len(emitted) + 1, Len(emitted'))

\* C30: every transaction sent to the contract appends to the event history
\* exactly one Mint for a successful mint, exactly one Transfer for a
\* successful transfer, one Burn followed by one Transfer to the zero address
\* for a successful burn, all carrying the hash of that one transaction, and
\* nothing for a reverted call; storage never changes without an event.
C30_EventsPerCall ==
    [][pc' = "idle" =>
          /\ SubSeq(emitted', 1, Len(emitted)) = emitted
          /\ Signatures(NewEvents) = ExpectedEvents(sent', reverted')
          /\ \A i, j \in 1..Len(NewEvents) :
                NewEvents[i].transactionHash = NewEvents[j].transactionHash
          /\ \A i \in 1..Len(NewEvents) : \A j \in 1..Len(emitted) :
                NewEvents[i].transactionHash # emitted[j].transactionHash
          /\ (contract' # contract => NewEvents # <<>>)]_vars

\* A successful burn left a Burn and then a Transfer to the zero address at
\* the end of the event history, after an earlier transaction.
C30_Witness ==
    /\ sent.op = "burn"
    /\ reverted = NoError
    /\ Len(emitted) >= 3
    /\ Signature(emitted[Len(emitted) - 1]) = <<"Burn", sent.sender, ZeroAddress, sent.amount>>
    /\ Signature(emitted[Len(emitted)]) = <<"Transfer", sent.sender, ZeroAddress, sent.amount>>

\* The precondition an error message or a custom error stands for.
Kind(e) ==
    IF e \in {"Cannot mint to zero address", "Cannot transfer to zero address", "ZeroAddress"}
    THEN "zero-address"
    ELSE IF e \in {"Mint amount must be greater than zero",
                   "Transfer amount must be greater than zero",
                   "Burn amount must be greater than zero", "ZeroAmount"}
    THEN "zero-amount"
    ELSE IF e \in {"Insufficient balance for transfer", "Insufficient balance for burn",
                   "Insufficient balance", "InsufficientBalance"}
    THEN "insufficient-balance"
    ELSE e

\* The preconditions a call violates, given the balance of the paying account.
Violated(op, to, amount, balance) ==
    (IF op # "burn" /\ to = ZeroAddress THEN {"zero-address"} ELSE {})
    \cup (IF amount = 0 THEN {"zero-amount"} ELSE {})
    \cup (IF op # "mint" /\ balance < amount THEN {"insufficient-balance"} ELSE {})

\* The first of a set of violated preconditions in the order zero-address,
\* zero-amount, insufficient-balance.
FirstOf(violated) ==
    IF "zero-address" \in violated THEN "zero-address"
    ELSE IF "zero-amount" \in violated THEN "zero-amount"
    ELSE "insufficient-balance"

\* What the validator of the last call says of the state the call was made on.
ValidationOfCall ==
    IF call.op = "mint" THEN validateMint(before, call.to, call.amount)
    ELSE IF call.op = "transfer"
    THEN validateTransfer(before, call.from, call.to, call.amount)
    ELSE validateBurn(before, call.from, call.amount)

\* C29: a call that violates several preconditions at once reports the first
\* of them in the order zero-address, zero-amount, insufficient-balance, in
\* the Token entity, in StateTransition and in the contract alike.
C29_FirstFailureReported ==
    call.op \in {"mint", "transfer", "burn"} =>
        LET offChain == Violated(call.op, call.to, call.amount,
                                 getBalance(before, call.from))
            onChain == Violated(sent.op, sent.to, sent.amount,
                                balanceOf(prior, sent.sender))
        IN  /\ Cardinality(offChain) >= 2 =>
                  /\ Kind(thrown) = FirstOf(offChain)
                  /\ Kind(ValidationOfCall.reason) = FirstOf(offChain)
            /\ Cardinality(onChain) >= 2 => Kind(reverted) = FirstOf(onChain)

\* A transfer of 0 to the zero address was made on both ledgers.
C29_Witness ==
    /\ call.op = "transfer"
    /\ sent.op = "transfer"
    /\ call.to = ZeroAddress
    /\ call.amount = 0
    /\ Kind(thrown) = "zero-address"
    /\ Kind(reverted) = "zero-address"

\* The log index of a record, a record without one counting as 0.
LocalOrder(l) == IF l.index = Null THEN 0 ELSE l.index

\* Stable insertion by log index alone.
RECURSIVE InsertByLocalOrder(_, _, _)
InsertByLocalOrder(sorted, l, i) ==
    IF i > Len(sorted) THEN Append(sorted, l)
    ELSE IF LocalOrder(sorted[i]) > LocalOrder(l)
    THEN SubSeq(sorted, 1, i - 1) \o <<l>> \o SubSeq(sorted, i, Len(sorted))
    ELSE InsertByLocalOrder(sorted, l, i + 1)

RECURSIVE ByLocalOrderFrom(_, _, _)
ByLocalOrderFrom(sorted, ls, i) ==
    IF i > Len(ls) THEN sorted
    ELSE ByLocalOrderFrom(InsertByLocalOrder(sorted, ls[i], 1), ls, i + 1)

\* The records in ascending order of log index, ties in delivery order.
ByLocalOrder(ls) == ByLocalOrderFrom(<<>>, ls, 1)

\* C23: the events of one transaction are applied in ascending order of
\* their log index alone, ties and missing indexes in delivery order, also
\* when the records carry different (blockNumber, transactionIndex) values.
C23_LocalOrderAlone ==
    pc = "returned" =>
        [i \in 1..Len(replay) |-> replay[i].log] = ByLocalOrder(logs)

\* A Transfer record whose addresses and amount parse.
WellFormedTransfer(l) == l.name = "Transfer" /\ ~Malformed(l)

C21_CompareReportsMismatch ==
    (compared.stage = "done" /\ compared.readOk /\ compared.logsOk) =>
        /\ compared.error = NoError
        /\ compared.match <=> (compared.storageBalance = compared.derivedBalance)

\* compareState returned a mismatch: storage balance and derived balance differ.
C21_Witness ==
    /\ compared.stage = "done"
    /\ compared.readOk
    /\ compared.logsOk
    /\ compared.error = NoError
    /\ ~compared.match
    /\ compared.storageBalance # compared.derivedBalance

\* C22: getByAddress never throws; it returns the reconstructed Token when
\* both reads answered, also when the storage totalSupply differs from the
\* reconstructed one, and null when the reconstruction or the storage read
\* failed. save always throws and changes neither the contract nor the
\* event history.
C22_BestEffortRepository ==
    /\ [](loaded.op = "getByAddress" /\ loaded.stage = "done" =>
            /\ loaded.error = NoError
            /\ (loaded.reconstructionOk /\ loaded.supplyOk) => loaded.result = "token"
            /\ ~(loaded.reconstructionOk /\ loaded.supplyOk) => loaded.result = "null")
    /\ [](loaded.op = "save" => loaded.error # NoError)
    /\ [][loaded'.op = "save" =>
             (contract' = contract /\ emitted' = emitted) \/ loaded' = loaded]_vars

\* getByAddress returned the reconstructed Token although its totalSupply is
\* not the one in storage.
C22_Witness ==
    /\ loaded.op = "getByAddress"
    /\ loaded.stage = "done"
    /\ loaded.result = "token"
    /\ loaded.warned
    /\ loaded.storageSupply # getTotalSupply(loaded.token)

\* C28: a WalletService call sends its transaction only after the validation
\* on the reconstructed state has returned valid; when the validation fails
\* the call throws and never sends a transaction.
C28_ValidateBeforeSend ==
    /\ [](wallet.stage \in {"validated", "submitted"} => wallet.valid)
    /\ [](wallet.stage = "thrown" /\ wallet.error = "validation failed" => ~wallet.valid)
    /\ [][(emitted' # emitted \/ sent' # sent \/ contract' # contract) =>
             /\ wallet.stage = "validated"
             /\ wallet.valid
             /\ wallet'.stage = "submitted"]_vars
    /\ [][wallet.stage = "thrown" =>
             wallet'.stage # "submitted"
             /\ (wallet' = wallet \/ wallet'.stage \in {"thrown", "validated"})]_vars

\* A transfer that the validation accepted was sent and moved tokens, after
\* another call had been refused by the validation.
C28_Witness ==
    /\ wallet.stage = "submitted"
    /\ wallet.op = "transfer"
    /\ wallet.valid
    /\ reverted = NoError
    /\ balanceOf(contract, wallet.to) > 0
    /\ wallet.to # wallet.signer

(***************************************************************************)
(* The stages of a causal unit during one reconstruction call              *)
(***************************************************************************)
StageTxs == {1, 2}

\* Position of the transaction in sortedTxEntries, 0 when it is not there.
EntryOfTx(tx) == IndexOfTx(run.entries, tx, 1)

\* The stage the call has brought the transaction to.
Stage(tx) ==
    IF run.phase = "idle" THEN "Unloaded"
    ELSE IF run.phase = "parse"
    THEN IF IndexOfTx(run.byTx, tx, 1) = 0 THEN "Unloaded" ELSE "Normalized"
    ELSE IF EntryOfTx(tx) = 0 THEN "Unloaded"
    ELSE IF EntryOfTx(tx) < run.t THEN "Applied"
    ELSE IF EntryOfTx(tx) > run.t THEN "Normalized"
    ELSE IF run.resolved THEN "Resolved"
    ELSE IF run.sorted THEN "Ordered"
    ELSE "Normalized"

Rank(stage) ==
    CASE stage = "Unloaded" -> 0
      [] stage = "Normalized" -> 1
      [] stage = "Ordered" -> 2
      [] stage = "Resolved" -> 3
      [] stage = "Applied" -> 4

\* The canonical-signal flag of the transaction over all its records.
UnitFlag(tx) ==
    \E j \in Indexes(logs) :
        /\ logs[j].transactionHash = tx
        /\ WellFormedTransfer(logs[j])
        /\ isZero(logs[j].to)

\* C27: within one reconstruction call every transaction moves through
\* Unloaded, Normalized, Ordered, Resolved, Applied in that order, one stage
\* at a time and never backwards; an event is applied only when its
\* transaction is Resolved, and the flag it is applied with is the flag
\* computed over all the records of the transaction.
C27_StagesInOrder ==
    /\ [][\A tx \in StageTxs : Rank(Stage(tx))' - Rank(Stage(tx)) \in {0, 1}]_vars
    /\ [][run'.st # run.st =>
            \A tx \in StageTxs :
                tx = run.sLogs[run.k].log.transactionHash =>
                    Stage(tx) = "Resolved" /\ Stage(tx)' = "Resolved"]_vars
    /\ [](\A i \in Indexes(run.st.replay) :
            /\ Rank(Stage(run.st.replay[i].log.transactionHash)) >= Rank("Resolved")
            /\ run.st.replay[i].flag = UnitFlag(run.st.replay[i].log.transactionHash))

\* The call returned after a transaction holding a Burn record and, later in
\* the transaction, a Transfer to the zero address went through every stage:
\* the Burn was skipped under the flag the later record set.
C27_Witness ==
    /\ run.phase = "done"
    /\ \E i \in Indexes(replay) : \E j \in Indexes(replay) :
        /\ i < j
        /\ replay[i].log.transactionHash = replay[j].log.transactionHash
        /\ replay[i].log.name = "Burn"
        /\ replay[i].flag
        /\ replay[i].how = "skipped"
        /\ replay[j].log.name = "Transfer"
    /\ \A tx \in StageTxs : Stage(tx) = "Applied"

\* C26 as stated: once an event has been applied, every record has been
\* parsed and grouped and every transaction has its events sorted.
C26_AllSortedBeforeReplay ==
    run.st.replay # <<>> =>
        /\ run.i > Len(logs)
        /\ \A tx \in StageTxs :
            IndexOfTx(run.byTx, tx, 1) # 0 => Rank(Stage(tx)) >= Rank("Ordered")

\* C26, amended: no event is applied until every record has been parsed and
\* grouped and the transactions are in their final order; the events of a
\* transaction are sorted when its turn comes, so an applied event belongs to
\* a transaction whose events are sorted and the transactions still unsorted
\* are the ones after it in the order.
C26_ParsedAndOrderedBeforeReplay ==
    run.st.replay # <<>> =>
        /\ run.i > Len(logs)
        /\ run.byTx = logsByTx(logs)
        /\ run.entries = sortedTxEntries(logsByTx(logs))
        /\ \A i \in Indexes(run.st.replay) :
            Rank(Stage(run.st.replay[i].log.transactionHash)) >= Rank("Ordered")
        /\ \A tx \in StageTxs :
            Stage(tx) = "Normalized" => EntryOfTx(tx) >= run.t

\* An event of the first transaction has been applied while the events of the
\* second one are still in delivery order, which is not their sorted order.
C26_Witness ==
    /\ run.phase = "loop"
    /\ run.st.replay # <<>>
    /\ \E tx \in StageTxs :
        /\ Stage(tx) = "Normalized"
        /\ sortedLogs(run.entries[EntryOfTx(tx)].txLogs) # run.entries[EntryOfTx(tx)].txLogs

(***************************************************************************)
(* Every parsed event is handled once                                      *)
(***************************************************************************)
\* How many times the record occurs among the parsed records delivered.
Delivered(r) == Cardinality({j \in Indexes(logs) : logs[j] = r /\ parseLog(r)})

\* How many times the second pass handled the record.
Processed(r) == Cardinality({i \in Indexes(replay) : replay[i].log = r})

\* The second pass handled every parsed record as many times as it was
\* delivered, and handled nothing else.
HandledOnce ==
    /\ \A j \in Indexes(logs) : parseLog(logs[j]) => Processed(logs[j]) = Delivered(logs[j])
    /\ \A i \in Indexes(replay) : Delivered(replay[i].log) > 0

\* C31: when the call returns, every parsed event was handled exactly once,
\* and each was either applied to the Token, skipped as a Burn made redundant
\* by a Transfer to the zero address, or dropped as malformed.
C31_AppliedSkippedOrDropped ==
    pc = "returned" =>
        /\ HandledOnce
        /\ \A i \in Indexes(replay) :
            \/ replay[i].how = "applied"
            \/ replay[i].how = "skipped" /\ replay[i].log.name = "Burn" /\ replay[i].flag
            \/ replay[i].how = "dropped" /\ Malformed(replay[i].log)

(***************************************************************************)
(* Balance arithmetic                                                      *)
(***************************************************************************)
NonNegative(t) ==
    /\ BalanceOk(getTotalSupply(t))
    /\ \A a \in AddressValues : BalanceOk(getBalance(t, a))

ZeroTransferIn(tx) ==
    \E j \in Indexes(logs) :
        /\ logs[j].transactionHash = tx
        /\ logs[j].name = "Transfer"
        /\ ~AddressFromThrows(logs[j].to)
        /\ isZero(logs[j].to)

\* C33: every event is processed under the flag of its own transaction: the
\* flag is set exactly when that transaction holds a Transfer to the zero
\* address, whatever the transactions processed before it held, so a Burn is
\* skipped only for a Transfer to the zero address of its own transaction.
C33_FlagPerTransaction ==
    pc = "returned" =>
        \A i \in Indexes(replay) :
            /\ replay[i].flag = ZeroTransferIn(replay[i].log.transactionHash)
            /\ replay[i].how = "skipped" => ZeroTransferIn(replay[i].log.transactionHash)
            /\ (replay[i].log.name = "Burn" /\ ~ZeroTransferIn(replay[i].log.transactionHash))
                   => replay[i].how # "skipped"

\* A transaction holding a Transfer to the zero address was processed first;
\* the Burn of the transaction processed after it, which holds no such
\* Transfer, was applied.
C33_Witness ==
    /\ pc = "returned"
    /\ \E i \in Indexes(replay) : \E j \in Indexes(replay) :
        /\ i < j
        /\ replay[i].log.name = "Transfer"
        /\ isZero(replay[i].log.to)
        /\ replay[i].flag
        /\ replay[j].log.transactionHash # replay[i].log.transactionHash
        /\ replay[j].log.name = "Burn"
        /\ ~replay[j].flag
        /\ replay[j].how = "applied"

(***************************************************************************)
(* Address identity                                                        *)
(***************************************************************************)
\* C34: two Address values that are equal under Address.equals have the
\* same balance after any sequence of mint/transfer/burn calls, and a
\* transfer or a burn within the balance credited to one spelling is not
\* refused for lack of funds when made through the other.
C34_KeyedByAddressIdentity ==
    /\ \A a, b \in AddressValues : equals(a, b) => getBalance(token, a) = getBalance(token, b)
    /\ \A a \in AddressValues :
        (/\ call.op \in {"transfer", "burn"}
         /\ equals(a, call.from)
         /\ getBalance(before, a) >= call.amount)
            => thrown \notin {"Insufficient balance for transfer", "Insufficient balance for burn"}

C36_PreflightSound ==
    /\ wallet.stage = "validated" => Encoded(wallet).error = NoError
    /\ (wallet.stage = "thrown" /\ wallet.error = "validation failed")
          => Encoded(wallet).error # NoError

====
